---------------------------- MODULE Spec2Model ----------------------------
(***************************************************************************)
(* A model of the map utilities of src/components/ProjectMaps.tsx: the     *)
(* Mercator projection (projectPoint), the SVG path and viewBox builders   *)
(* (pointsToPath, pointsToViewBox), the keyword location matcher           *)
(* (matchProjectToLocation) and the ProjectMaps component that uses them;  *)
(* and of the useTheme hook of src/components/theme-provider-context.ts.   *)
(*                                                                         *)
(* Representation.                                                         *)
(*  - A JavaScript string is a sequence of one-character strings.          *)
(*  - A JavaScript number is an integer count of 1/Unit (fixed point);     *)
(*    degrees are an integer count of 1/Deg.                               *)
(*  - An optional value (T | undefined, T | null) is a sequence of length  *)
(*    at most one: <<>> when absent, <<v>> when present.                   *)
(***************************************************************************)
EXTENDS Integers, Sequences, FiniteSets, TLC

VARIABLES
  fn,               \* the module-level function last applied ("none" before)
  args,             \* its arguments
  ret,              \* its result
  calls,            \* the projectPoint calls made so far: <<arguments, result>>
  projects,         \* ProjectMaps: the projects prop
  activeRegion,     \* ProjectMaps: useState<RegionId>('usa')
  hoveredRegion,    \* ProjectMaps: useState<RegionId | null>(null)
  globalTooltip,    \* ProjectMaps: useState<{region, x, y, ...} | null>(null)
  selectedProject,  \* ProjectMaps: useState<Project | null>(null)
  regionTooltip,    \* ProjectMaps: useState<{marker, x, y, ...} | null>(null)
  projectMarkers,   \* ProjectMaps: the memoized marker list
  effectPending     \* ProjectMaps: the effect's dependencies changed in the
                    \* last render and the effect has not run yet

callVars == <<fn, args, ret, calls>>
compVars == <<projects, activeRegion, hoveredRegion, globalTooltip,
              selectedProject, regionTooltip, projectMarkers, effectPending>>
vars == <<fn, args, ret, calls, projects, activeRegion, hoveredRegion, globalTooltip,
          selectedProject, regionTooltip, projectMarkers, effectPending>>

(***************************************************************************)
(* Bounds of the model.                                                    *)
(***************************************************************************)
MaxNameParts == 2
MaxPoints == 3
MaxProjects == 2

(***************************************************************************)
(* Optional values and small helpers.                                      *)
(***************************************************************************)
undefined == <<>>
null == <<>>
Some(v) == <<v>>

SetMin(S) == CHOOSE m \in S : \A n \in S : m <= n
SetMax(S) == CHOOSE m \in S : \A n \in S : m >= n
Abs(n) == IF n < 0 THEN -n ELSE n

(***************************************************************************)
(* Strings.                                                                *)
(***************************************************************************)
UPPER == <<"A", "B", "C", "D", "E", "F", "G", "H", "I", "J", "K", "L", "M",
           "N", "O", "P", "Q", "R", "S", "T", "U", "V", "W", "X", "Y", "Z",
           "Ñ", "Ó", "Í", "À">>
LOWER == <<"a", "b", "c", "d", "e", "f", "g", "h", "i", "j", "k", "l", "m",
           "n", "o", "p", "q", "r", "s", "t", "u", "v", "w", "x", "y", "z",
           "ñ", "ó", "í", "à">>

\* String.prototype.toLowerCase, character by character.
LowerChar(c) ==
  IF \E i \in DOMAIN UPPER : UPPER[i] = c
    THEN LOWER[CHOOSE i \in DOMAIN UPPER : UPPER[i] = c]
    ELSE c

toLowerCase(s) == [i \in 1..Len(s) |-> LowerChar(s[i])]

\* String.prototype.includes: needle occurs in haystack as a substring.
includes(haystack, needle) ==
  \E i \in 0..(Len(haystack) - Len(needle)) :
    SubSeq(haystack, i + 1, i + Len(needle)) = needle

REGION_IDS == <<"usa", "europe", "south-america">>

(***************************************************************************)
(* Numbers.  A number is an integer count of 1/Unit; a longitude or        *)
(* latitude is an integer count of 1/Deg of a degree.                      *)
(***************************************************************************)
Unit == 10^4
Deg == 10^3

Min2(a, b) == IF a <= b THEN a ELSE b   \* Math.min(a, b)
Max2(a, b) == IF a >= b THEN a ELSE b   \* Math.max(a, b)

DIGITS == <<"0", "1", "2", "3", "4", "5", "6", "7", "8", "9">>

RECURSIVE DecimalDigits(_)
\* The decimal digits of a natural number, most significant first.
DecimalDigits(n) ==
  IF n < 10 THEN <<DIGITS[n + 1]>>
            ELSE Append(DecimalDigits(n \div 10), DIGITS[(n % 10) + 1])

RECURSIVE PadLeft(_, _)
\* s padded on the left with "0" to the length len.
PadLeft(s, len) == IF Len(s) >= len THEN s ELSE PadLeft(<<"0">> \o s, len)

RECURSIVE StripZeros(_)
\* s without its trailing "0"s.
StripZeros(s) ==
  IF s # <<>> /\ s[Len(s)] = "0" THEN StripZeros(SubSeq(s, 1, Len(s) - 1)) ELSE s

\* The mistake of cutting the extra decimals off instead of rounding.
toFixed_truncating(x, fractionDigits) ==
  LET scale == 10^fractionDigits
      n     == (Abs(x) * scale) \div Unit
      whole == DecimalDigits(n \div scale)
      frac  == PadLeft(DecimalDigits(n % scale), fractionDigits)
  IN  (IF x < 0 THEN <<"-">> ELSE <<>>) \o whole \o
      (IF fractionDigits = 0 THEN <<>> ELSE <<".">> \o frac)

\* Number.prototype.toFixed(fractionDigits), fractionDigits in 0..4: the sign
\* is taken first, the magnitude is rounded to the nearest multiple of
\* 10^-fractionDigits (the larger one on a tie) and written with exactly
\* fractionDigits decimals.
toFixed(x, fractionDigits) ==
  LET scale == 10^fractionDigits
      n     == (Abs(x) * scale + Unit \div 2) \div Unit
      whole == DecimalDigits(n \div scale)
      frac  == PadLeft(DecimalDigits(n % scale), fractionDigits)
  IN  (IF x < 0 THEN <<"-">> ELSE <<>>) \o whole \o
      (IF fractionDigits = 0 THEN <<>> ELSE <<".">> \o frac)

\* Number::toString as a template literal applies it: the shortest decimal
\* that reads back as the number, so no trailing zeros and no "." for an
\* integer.
NumberToString(x) ==
  LET whole == DecimalDigits(Abs(x) \div Unit)
      frac  == StripZeros(PadLeft(DecimalDigits(Abs(x) % Unit), 4))
  IN  (IF x < 0 THEN <<"-">> ELSE <<>>) \o whole \o
      (IF frac = <<>> THEN <<>> ELSE <<".">> \o frac)

\* Array.prototype.join(separator) of an array of strings.
RECURSIVE join(_, _)
join(parts, separator) ==
  IF parts = <<>> THEN <<>>
  ELSE IF Len(parts) = 1 THEN parts[1]
  ELSE parts[1] \o separator \o join(Tail(parts), separator)

(***************************************************************************)
(* The coordinate projector.                                               *)
(***************************************************************************)
GLOBAL_WIDTH == 900
GLOBAL_HEIGHT == 450

\* MERCATOR_SCALE * Math.log(Math.tan(Math.PI / 4 + latRad / 2)) with
\* MERCATOR_SCALE = GLOBAL_WIDTH / (2 * Math.PI) and latRad = lat * Math.PI / 180,
\* tabulated as <<lat, value>> (lat in 1/Deg, value in 1/Unit, rounded to the
\* nearest) for every whole degree from -89 to 89 and for every latitude of
\* PROJECT_LOCATIONS.
MERCATOR_TABLE ==
  { <<-89000, -6791482>>, <<-88000, -5798513>>, <<-87000, -5217545>>, <<-86000, -4805216>>,
    <<-85000, -4485259>>, <<-84000, -4223702>>, <<-83000, -4002424>>, <<-82000, -3810608>>,
    <<-81000, -3641276>>, <<-80000, -3489665>>, <<-79000, -3352377>>, <<-78000, -3226902>>,
    <<-77000, -3111335>>, <<-76000, -3004195>>, <<-75000, -2904308>>, <<-74000, -2810726>>,
    <<-73000, -2722676>>, <<-72000, -2639516>>, <<-71000, -2560709>>, <<-70000, -2485799>>,
    <<-69000, -2414399>>, <<-68000, -2346174>>, <<-67000, -2280836>>, <<-66000, -2218130>>,
    <<-65000, -2157837>>, <<-64000, -2099759>>, <<-63000, -2043724>>, <<-62000, -1989576>>,
    <<-61000, -1937177>>, <<-60000, -1886403>>, <<-59000, -1837142>>, <<-58000, -1789291>>,
    <<-57000, -1742758>>, <<-56000, -1697460>>, <<-55000, -1653319>>, <<-54000, -1610265>>,
    <<-53000, -1568233>>, <<-52000, -1527164>>, <<-51000, -1487002>>, <<-50000, -1447697>>,
    <<-49000, -1409201>>, <<-48000, -1371470>>, <<-47000, -1334464>>, <<-46000, -1298144>>,
    <<-45000, -1262475>>, <<-44000, -1227423>>, <<-43000, -1192956>>, <<-42000, -1159047>>,
    <<-41000, -1125666>>, <<-40000, -1092788>>, <<-39000, -1060387>>, <<-38000, -1028442>>,
    <<-37000, -996929>>, <<-36000, -965828>>, <<-35000, -935120>>, <<-34000, -904784>>,
    <<-33000, -874803>>, <<-32000, -845160>>, <<-31000, -815839>>, <<-30000, -786823>>,
    <<-29000, -758099>>, <<-28000, -729651>>, <<-27000, -701466>>, <<-26000, -673530>>,
    <<-25000, -645831>>, <<-24000, -618357>>, <<-23000, -591096>>, <<-22000, -564035>>,
    <<-21000, -537165>>, <<-20000, -510475>>, <<-19000, -483953>>, <<-18000, -457590>>,
    <<-17000, -431377>>, <<-16000, -405303>>, <<-15000, -379359>>, <<-14000, -353536>>,
    <<-13000, -327825>>, <<-12000, -302218>>, <<-11000, -276705>>, <<-10000, -251279>>,
    <<-9000, -225931>>, <<-8000, -200653>>, <<-7000, -175437>>, <<-6000, -150275>>,
    <<-5000, -125159>>, <<-4000, -100081>>, <<-3000, -75034>>, <<-2000, -50010>>,
    <<-1000, -25001>>, <<0, 0>>, <<1000, 25001>>, <<2000, 50010>>,
    <<3000, 75034>>, <<4000, 100081>>, <<5000, 125159>>, <<6000, 150275>>,
    <<6244, 156410>>, <<7000, 175437>>, <<8000, 200653>>, <<9000, 225931>>,
    <<10000, 251279>>, <<11000, 276705>>, <<12000, 302218>>, <<13000, 327825>>,
    <<14000, 353536>>, <<15000, 379359>>, <<16000, 405303>>, <<17000, 431377>>,
    <<18000, 457590>>, <<19000, 483953>>, <<20000, 510475>>, <<21000, 537165>>,
    <<22000, 564035>>, <<23000, 591096>>, <<24000, 618357>>, <<25000, 645831>>,
    <<26000, 673530>>, <<27000, 701466>>, <<28000, 729651>>, <<29000, 758099>>,
    <<29760, 779903>>, <<30000, 786823>>, <<30226, 793355>>, <<31000, 815839>>,
    <<32000, 845160>>, <<33000, 874803>>, <<33970, 903879>>, <<34000, 904784>>,
    <<35000, 935120>>, <<36000, 965828>>, <<37000, 996929>>, <<38000, 1028442>>,
    <<39000, 1060387>>, <<39165, 1065702>>, <<39533, 1077599>>, <<40000, 1092788>>,
    <<40350, 1104239>>, <<41000, 1125666>>, <<41780, 1151658>>, <<41990, 1158710>>,
    <<42000, 1159047>>, <<42120, 1163087>>, <<43000, 1192956>>, <<43040, 1194324>>,
    <<43180, 1199118>>, <<43230, 1200833>>, <<43250, 1201520>>, <<43290, 1202893>>,
    <<43310, 1203580>>, <<44000, 1227423>>, <<45000, 1262475>>, <<46000, 1298144>>,
    <<47000, 1334464>>, <<48000, 1371470>>, <<49000, 1409201>>, <<50000, 1447697>>,
    <<51000, 1487002>>, <<52000, 1527164>>, <<53000, 1568233>>, <<54000, 1610265>>,
    <<55000, 1653319>>, <<56000, 1697460>>, <<57000, 1742758>>, <<58000, 1789291>>,
    <<59000, 1837142>>, <<60000, 1886403>>, <<61000, 1937177>>, <<62000, 1989576>>,
    <<63000, 2043724>>, <<64000, 2099759>>, <<65000, 2157837>>, <<66000, 2218130>>,
    <<67000, 2280836>>, <<68000, 2346174>>, <<69000, 2414399>>, <<70000, 2485799>>,
    <<71000, 2560709>>, <<72000, 2639516>>, <<73000, 2722676>>, <<74000, 2810726>>,
    <<75000, 2904308>>, <<76000, 3004195>>, <<77000, 3111335>>, <<78000, 3226902>>,
    <<79000, 3352377>>, <<80000, 3489665>>, <<81000, 3641276>>, <<82000, 3810608>>,
    <<83000, 4002424>>, <<84000, 4223702>>, <<85000, 4485259>>, <<86000, 4805216>>,
    <<87000, 5217545>>, <<88000, 5798513>>, <<89000, 6791482>> }

mercatorTerm(lat) == (CHOOSE row \in MERCATOR_TABLE : row[1] = lat)[2]

\* The mistake of clamping to the wrong upper bound.
clampLatitude_to89(lat) == Max2(Min2(lat, 89 * Deg), -85 * Deg)

clampLatitude(lat) == Max2(Min2(lat, 85 * Deg), -85 * Deg)

\* The mistake of measuring the longitude from the Greenwich meridian.
projectPoint_unshifted(lon, lat) ==
  LET limitedLat == clampLatitude(lat)
      x == lon * ((GLOBAL_WIDTH * Unit) \div (360 * Deg))
      y == (GLOBAL_HEIGHT * Unit) \div 2 - mercatorTerm(limitedLat)
  IN  [x |-> x, y |-> y]

\* The mistake of adding the Mercator term to the canvas centre (south up).
projectPoint_southUp(lon, lat) ==
  LET limitedLat == clampLatitude(lat)
      x == (lon + 180 * Deg) * ((GLOBAL_WIDTH * Unit) \div (360 * Deg))
      y == (GLOBAL_HEIGHT * Unit) \div 2 + mercatorTerm(limitedLat)
  IN  [x |-> x, y |-> y]

\* The mistake of keeping hidden state: every call after the first is
\* shifted by one pixel.
projectPoint_shiftAfterFirst(lon, lat) ==
  LET limitedLat == clampLatitude(lat)
      shift == IF calls = {} THEN 0 ELSE Unit
      x == (lon + 180 * Deg) * ((GLOBAL_WIDTH * Unit) \div (360 * Deg)) + shift
      y == (GLOBAL_HEIGHT * Unit) \div 2 - mercatorTerm(limitedLat)
  IN  [x |-> x, y |-> y]

projectPoint(lon, lat) ==
  LET limitedLat == clampLatitude(lat)
      x == (lon + 180 * Deg) * ((GLOBAL_WIDTH * Unit) \div (360 * Deg))
      y == (GLOBAL_HEIGHT * Unit) \div 2 - mercatorTerm(limitedLat)
  IN  [x |-> x, y |-> y]

polygonToPoints(polygon) ==
  [i \in 1..Len(polygon) |-> projectPoint(polygon[i].lon, polygon[i].lat)]

(***************************************************************************)
(* The polygon renderer.                                                   *)
(***************************************************************************)
\* One command of the path: the letter, then "x,y" with two decimals each.
pathCommand(point, index) ==
  (IF index = 0 THEN <<"M">> ELSE <<"L">>) \o toFixed(point.x, 2) \o <<",">> \o
  toFixed(point.y, 2)

\* The mistake of leaving out the empty case: [].join(' ') + ' Z'.
pointsToPath_noEmptyCase(points) ==
  join([i \in 1..Len(points) |-> pathCommand(points[i], i - 1)], <<" ">>)
    \o <<" ", "Z">>

pointsToPath(points) ==
  IF Len(points) = 0 THEN <<>>
  ELSE join([i \in 1..Len(points) |-> pathCommand(points[i], i - 1)], <<" ">>)
         \o <<" ", "Z">>

DEFAULT_PADDING == 32

\* The mistake of leaving out the empty case: Math.min() of nothing is
\* Infinity and Math.max() of nothing is -Infinity.
pointsToViewBox_noEmptyCase(points, padding) ==
  LET pad  == IF padding = undefined THEN DEFAULT_PADDING * Unit ELSE padding[1]
      xs   == {points[i].x : i \in 1..Len(points)}
      ys   == {points[i].y : i \in 1..Len(points)}
  IN  IF Len(points) = 0
        THEN <<"I", "n", "f", "i", "n", "i", "t", "y", " ", "I", "n", "f", "i", "n", "i", "t", "y", " ", "1", " ", "1">>
      ELSE
        LET minX == SetMin(xs) - pad
            maxX == SetMax(xs) + pad
            minY == SetMin(ys) - pad
            maxY == SetMax(ys) + pad
            width  == Max2(maxX - minX, 1 * Unit)
            height == Max2(maxY - minY, 1 * Unit)
        IN  join(<<NumberToString(minX), NumberToString(minY),
                   NumberToString(width), NumberToString(height)>>, <<" ">>)

\* The mistake of padding the far sides only.
pointsToViewBox_farSidesOnly(points, padding) ==
  IF Len(points) = 0
    THEN <<"0", " ", "0", " ">> \o NumberToString(GLOBAL_WIDTH * Unit) \o <<" ">> \o
         NumberToString(GLOBAL_HEIGHT * Unit)
  ELSE
    LET pad  == IF padding = undefined THEN DEFAULT_PADDING * Unit ELSE padding[1]
        xs   == {points[i].x : i \in 1..Len(points)}
        ys   == {points[i].y : i \in 1..Len(points)}
        minX == SetMin(xs)
        maxX == SetMax(xs) + pad
        minY == SetMin(ys)
        maxY == SetMax(ys) + pad
        width  == Max2(maxX - minX, 1 * Unit)
        height == Max2(maxY - minY, 1 * Unit)
    IN  join(<<NumberToString(minX), NumberToString(minY),
               NumberToString(width), NumberToString(height)>>, <<" ">>)

\* The mistake of moving the origin by the padding and leaving the size that
\* of the bare bounding box.
pointsToViewBox_unpaddedSize(points, padding) ==
  IF Len(points) = 0
    THEN <<"0", " ", "0", " ">> \o NumberToString(GLOBAL_WIDTH * Unit) \o <<" ">> \o
         NumberToString(GLOBAL_HEIGHT * Unit)
  ELSE
    LET pad  == IF padding = undefined THEN DEFAULT_PADDING * Unit ELSE padding[1]
        xs   == {points[i].x : i \in 1..Len(points)}
        ys   == {points[i].y : i \in 1..Len(points)}
        minX == SetMin(xs) - pad
        minY == SetMin(ys) - pad
        width  == Max2(SetMax(xs) - SetMin(xs), 1 * Unit)
        height == Max2(SetMax(ys) - SetMin(ys), 1 * Unit)
    IN  join(<<NumberToString(minX), NumberToString(minY),
               NumberToString(width), NumberToString(height)>>, <<" ">>)

\* padding is <<>> when the argument is omitted (the default then applies).
pointsToViewBox(points, padding) ==
  IF Len(points) = 0
    THEN <<"0", " ", "0", " ">> \o NumberToString(GLOBAL_WIDTH * Unit) \o <<" ">> \o
         NumberToString(GLOBAL_HEIGHT * Unit)
  ELSE
    LET pad  == IF padding = undefined THEN DEFAULT_PADDING * Unit ELSE padding[1]
        xs   == {points[i].x : i \in 1..Len(points)}
        ys   == {points[i].y : i \in 1..Len(points)}
        minX == SetMin(xs) - pad
        maxX == SetMax(xs) + pad
        minY == SetMin(ys) - pad
        maxY == SetMax(ys) + pad
        width  == Max2(maxX - minX, 1 * Unit)
        height == Max2(maxY - minY, 1 * Unit)
    IN  join(<<NumberToString(minX), NumberToString(minY),
               NumberToString(width), NumberToString(height)>>, <<" ">>)

PROJECT_LOCATIONS ==
  <<
    [ keywords |-> << <<"s", "u", "s", "q", "u", "e", "h", "a", "n", "n", "a">> >>,
      coords |-> [lon |-> -76992, lat |-> 39533],
      regionId |-> "usa",
      label |-> <<"W", "a", "s", "h", "i", "n", "g", "t", "o", "n", ",", " ", "D", "C">> ],
    [ keywords |-> << <<"s", "r", "-", "4", "0", "0">>,
                     <<"e", "x", "p", "r", "e", "s", "s", " ", "l", "a", "n", "e", "s">> >>,
      coords |-> [lon |-> -84360, lat |-> 33970],
      regionId |-> "usa",
      label |-> <<"A", "t", "l", "a", "n", "t", "a", ",", " ", "G", "A">> ],
    [ keywords |-> << <<"c", "a", "l", "c", "a", "s", "i", "e", "u">> >>,
      coords |-> [lon |-> -93217, lat |-> 30226],
      regionId |-> "usa",
      label |-> <<"L", "a", "k", "e", " ", "C", "h", "a", "r", "l", "e", "s", ",", " ", "L", "A">> ],
    [ keywords |-> << <<"g", "r", "a", "n", "d", " ", "p", "a", "r", "k", "w", "a", "y">> >>,
      coords |-> [lon |-> -95369, lat |-> 29760],
      regionId |-> "usa",
      label |-> <<"H", "o", "u", "s", "t", "o", "n", ",", " ", "T", "X">> ],
    [ keywords |-> << <<"i", "-", "6", "9">> >>,
      coords |-> [lon |-> -86526, lat |-> 39165],
      regionId |-> "usa",
      label |-> <<"B", "l", "o", "o", "m", "i", "n", "g", "t", "o", "n", ",", " ", "I", "N">> ],
    [ keywords |-> << <<"a", "y", "a", "c", "u", "c", "h", "o">>,
                     <<"m", "e", "d", "e", "l", "l">> >>,
      coords |-> [lon |-> -75563, lat |-> 6244],
      regionId |-> "south-america",
      label |-> <<"M", "e", "d", "e", "l", "l", "í", "n">> ],
    [ keywords |-> << <<"z", "i", "z", "u", "r", "k", "i", "l">>,
                     <<"a", "n", "d", "o", "a", "i", "n">> >>,
      coords |-> [lon |-> -2020, lat |-> 43230],
      regionId |-> "europe",
      label |-> <<"Z", "i", "z", "u", "r", "k", "i", "l", " ", "·", " ", "A", "n", "d", "o", "a", "i", "n">> ],
    [ keywords |-> << <<"v", "e", "n", "t", "a", " ", "d", "e", " ", "b", "a", "ñ", "o", "s">> >>,
      coords |-> [lon |-> -4500, lat |-> 41990],
      regionId |-> "europe",
      label |-> <<"V", "e", "n", "t", "a", " ", "d", "e", " ", "B", "a", "ñ", "o", "s">> ],
    [ keywords |-> << <<"a", "n", "d", "o", "a", "i", "n", " ", "t", "o", " ", "u", "r", "n", "i", "e", "t", "a">>,
                     <<"u", "r", "n", "i", "e", "t", "a">> >>,
      coords |-> [lon |-> -2010, lat |-> 43250],
      regionId |-> "europe",
      label |-> <<"A", "n", "d", "o", "a", "i", "n", " ", "·", " ", "U", "r", "n", "i", "e", "t", "a">> ],
    [ keywords |-> << <<"c", "a", "b", "e", "z", "ó", "n", " ", "d", "e", " ", "p", "i", "s", "u", "e", "r", "g", "a">>,
                     <<"v", "a", "l", "v", "e", "n", "í">> >>,
      coords |-> [lon |-> -4630, lat |-> 41780],
      regionId |-> "europe",
      label |-> <<"C", "a", "b", "e", "z", "ó", "n", " ", "d", "e", " ", "P", "i", "s", "u", "e", "r", "g", "a">> ],
    [ keywords |-> << <<"l", "e", "g", "u", "t", "i", "a", "n", "o">>,
                     <<"e", "s", "c", "o", "r", "i", "a", "t", "z", "a">> >>,
      coords |-> [lon |-> -2520, lat |-> 43040],
      regionId |-> "europe",
      label |-> <<"L", "e", "g", "u", "t", "i", "a", "n", "o", " ", "·", " ", "E", "s", "c", "o", "r", "i", "a", "t", "z", "a">> ],
    [ keywords |-> << <<"g", "e", "r", "n", "i", "k", "a">> >>,
      coords |-> [lon |-> -2680, lat |-> 43310],
      regionId |-> "europe",
      label |-> <<"G", "e", "r", "n", "i", "k", "a">> ],
    [ keywords |-> << <<"v", "i", "l", "a", "d", "e", "m", "u", "l", "s">>,
                     <<"c", "o", "r", "n", "e", "l", "l", "à">> >>,
      coords |-> [lon |-> 2820, lat |-> 42120],
      regionId |-> "europe",
      label |-> <<"V", "i", "l", "a", "d", "e", "m", "u", "l", "s">> ],
    [ keywords |-> << <<"b", "i", "-", "6", "2", "5">> >>,
      coords |-> [lon |-> -2870, lat |-> 43230],
      regionId |-> "europe",
      label |-> <<"B", "I", "-", "6", "2", "5", " ", "C", "o", "r", "r", "i", "d", "o", "r">> ],
    [ keywords |-> << <<"r", "-", "3">>,
                     <<"m", "-", "5", "0">>,
                     <<"m", "a", "d", "r", "i", "d">> >>,
      coords |-> [lon |-> -3520, lat |-> 40350],
      regionId |-> "europe",
      label |-> <<"M", "a", "d", "r", "i", "d">> ],
    [ keywords |-> << <<"a", "p", "1">>,
                     <<"b", "e", "r", "g", "a", "r", "a">> >>,
      coords |-> [lon |-> -2410, lat |-> 43180],
      regionId |-> "europe",
      label |-> <<"E", "i", "b", "a", "r", " ", "·", " ", "B", "e", "r", "g", "a", "r", "a">> ],
    [ keywords |-> << <<"u", "r", "u", "m", "e", "a">>,
                     <<"a", "s", "t", "i", "g", "a", "r", "r", "a", "g", "a">> >>,
      coords |-> [lon |-> -1950, lat |-> 43290],
      regionId |-> "europe",
      label |-> <<"M", "a", "r", "t", "u", "t", "e", "n", "e", " ", "·", " ", "A", "s", "t", "i", "g", "a", "r", "r", "a", "g", "a">> ]
  >>

(***************************************************************************)
(* The location matcher.                                                   *)
(***************************************************************************)
\* The mistake of searching the text as written, capitals included.
haystackOf_caseSensitive(project) ==
  project.name \o <<" ">> \o
  (IF project.location = undefined THEN <<>> ELSE project.location[1])

\* `${project.name} ${project.location ?? ''}`.toLowerCase()
haystackOf(project) ==
  toLowerCase(project.name \o <<" ">> \o
              (IF project.location = undefined THEN <<>> ELSE project.location[1]))

\* entry.keywords.some((keyword) => haystack.includes(keyword))
entryMatches(entry, haystack) ==
  \E k \in DOMAIN entry.keywords : includes(haystack, entry.keywords[k])

\* The mistake of returning the last entry that matches.
matchProjectToLocation_last(project) ==
  LET haystack == haystackOf(project)
      hits == {i \in DOMAIN PROJECT_LOCATIONS :
                 entryMatches(PROJECT_LOCATIONS[i], haystack)}
  IN  IF hits = {} THEN undefined ELSE Some(PROJECT_LOCATIONS[SetMax(hits)])

\* PROJECT_LOCATIONS.find(...): the first entry, in array order, that matches;
\* undefined when none does.
matchProjectToLocation(project) ==
  LET haystack == haystackOf(project)
      hits == {i \in DOMAIN PROJECT_LOCATIONS :
                 entryMatches(PROJECT_LOCATIONS[i], haystack)}
  IN  IF hits = {} THEN undefined ELSE Some(PROJECT_LOCATIONS[SetMin(hits)])

(***************************************************************************)
(* The ProjectMaps component.                                              *)
(***************************************************************************)
\* REGION_GEOMETRY[regionId], reduced to the fields the handlers read.
REGION_GEOMETRY(regionId) == [id |-> regionId]

RECURSIVE reduceMarkers(_, _)
\* projects.reduce over the first n projects: an unmatched project leaves the
\* accumulator as it is, a matched one pushes its marker.
reduceMarkers(projs, n) ==
  IF n = 0 THEN <<>>
  ELSE
    LET accumulator == reduceMarkers(projs, n - 1)
        project     == projs[n]
        match       == matchProjectToLocation(project)
    IN  IF match = undefined THEN accumulator
        ELSE Append(accumulator,
                    [ project  |-> project,
                      regionId |-> match[1].regionId,
                      coords   |-> match[1].coords,
                      point    |-> projectPoint(match[1].coords.lon, match[1].coords.lat),
                      label    |-> match[1].label ])

\* The mistake of adding each marker at the front of the accumulator.
computeProjectMarkers_unshift(projs) ==
  LET fwd == reduceMarkers(projs, Len(projs))
  IN  [i \in 1..Len(fwd) |-> fwd[Len(fwd) + 1 - i]]

\* The useMemo body of projectMarkers.
computeProjectMarkers(projs) == reduceMarkers(projs, Len(projs))

RECURSIVE reduceByRegion(_, _)
\* projectMarkers.reduce into a record of per-region marker lists.
reduceByRegion(markers, n) ==
  IF n = 0 THEN [r \in {"usa", "europe", "south-america"} |-> <<>>]
  ELSE
    LET accumulator == reduceByRegion(markers, n - 1)
        marker      == markers[n]
    IN  [accumulator EXCEPT ![marker.regionId] = Append(@, marker)]

\* The mistake of deriving the lists from the active region as well: the
\* lists of the other regions are left empty.
projectsByRegion_activeOnly ==
  [r \in {"usa", "europe", "south-america"} |->
     IF r = activeRegion
       THEN reduceByRegion(projectMarkers, Len(projectMarkers))[r]
     ELSE <<>>]

projectsByRegion == reduceByRegion(projectMarkers, Len(projectMarkers))

RECURSIVE reduceCounts(_, _)
reduceCounts(markers, n) ==
  IF n = 0 THEN [r \in {"usa", "europe", "south-america"} |-> 0]
  ELSE
    LET accumulator == reduceCounts(markers, n - 1)
    IN  [accumulator EXCEPT ![markers[n].regionId] = @ + 1]

regionCounts == reduceCounts(projectMarkers, Len(projectMarkers))

activeRegionMarkers == projectsByRegion[activeRegion]

\* What a handler reads of a mouse event: the pointer position, and the
\* bounding rectangle of the owner <svg> (absent when there is no owner).
SVG_BOUNDS == [left |-> 10, top |-> 5, width |-> 800, height |-> 400]
MouseEvents ==
  { [clientX |-> 100, clientY |-> 50, ownerSVGElement |-> o] :
      o \in {undefined, Some(SVG_BOUNDS)} }

tooltipAt(key, value, event) ==
  LET bounds == event.ownerSVGElement[1]
  IN  [ k \in {key, "x", "y", "width", "height"} |->
          IF k = key THEN value
          ELSE IF k = "x" THEN event.clientX - bounds.left
          ELSE IF k = "y" THEN event.clientY - bounds.top
          ELSE IF k = "width" THEN bounds.width
          ELSE bounds.height ]

\* The projects the parent can pass.
PROJECT_POOL ==
  { [name |-> <<"I", "-", "6", "9", " ", "W", "i", "d", "e", "n", "i", "n", "g">>, location |-> undefined, value |-> "v1"],
    [name |-> <<"I", "-", "6", "9", " ", "W", "i", "d", "e", "n", "i", "n", "g">>, location |-> undefined, value |-> "v2"],
    [name |-> <<"G", "r", "a", "n", "d">>, location |-> Some(<<"P", "a", "r", "k", "w", "a", "y", ",", " ", "H", "o", "u", "s", "t", "o", "n">>), value |-> "v1"],
    [name |-> <<"A", "n", "d", "o", "a", "i", "n", " ", "t", "o", " ", "U", "r", "n", "i", "e", "t", "a">>, location |-> Some(<<"S", "p", "a", "i", "n">>), value |-> "v1"],
    [name |-> <<"H", "a", "r", "b", "o", "r", " ", "B", "r", "i", "d", "g", "e">>, location |-> Some(<<>>), value |-> "v1"] }

ProjectLists ==
  UNION { [1..n -> PROJECT_POOL] : n \in 0..MaxProjects }

\* useMemo(..., [projects]): the marker list of each projects array the parent
\* can pass, computed once per array.
memoProjectMarkers ==
  { [projects |-> projs, projectMarkers |-> computeProjectMarkers(projs)] :
      projs \in ProjectLists }

\* The first render: the state hooks hold their initial values, the memo is
\* computed, and the effect is due.
CompInit(render) ==
  /\ projects = render.projects
  /\ activeRegion = "usa"
  /\ hoveredRegion = null
  /\ globalTooltip = null
  /\ selectedProject = null
  /\ regionTooltip = null
  /\ projectMarkers = render.projectMarkers
  /\ effectPending = TRUE

NoCall == fn = "none" /\ args = <<>> /\ ret = <<>> /\ calls = {}

Init == NoCall /\ \E render \in memoProjectMarkers : CompInit(render)

\* The mistake of selecting the first marker's project whatever was selected.
RunEffect_firstMarker ==
  /\ effectPending
  /\ regionTooltip' = null
  /\ selectedProject' =
       IF activeRegionMarkers # <<>> THEN Some(activeRegionMarkers[1].project)
       ELSE null
  /\ effectPending' = FALSE
  /\ UNCHANGED <<projects, activeRegion, hoveredRegion, globalTooltip, projectMarkers>>
  /\ UNCHANGED callVars

\* The mistake of leaving the marker tooltip open across the change.
RunEffect_keepTooltip ==
  /\ effectPending
  /\ selectedProject' =
       IF /\ selectedProject # null
          /\ \E i \in DOMAIN activeRegionMarkers :
               activeRegionMarkers[i].project.name = selectedProject[1].name
         THEN selectedProject
       ELSE IF activeRegionMarkers # <<>> THEN Some(activeRegionMarkers[1].project)
       ELSE null
  /\ effectPending' = FALSE
  /\ UNCHANGED <<projects, activeRegion, hoveredRegion, globalTooltip,
                 regionTooltip, projectMarkers>>
  /\ UNCHANGED callVars

\* The effect on [activeRegion, activeRegionMarkers].
RunEffect ==
  /\ effectPending
  /\ regionTooltip' = null
  /\ selectedProject' =
       IF /\ selectedProject # null
          /\ \E i \in DOMAIN activeRegionMarkers :
               activeRegionMarkers[i].project.name = selectedProject[1].name
         THEN selectedProject
       ELSE IF activeRegionMarkers # <<>> THEN Some(activeRegionMarkers[1].project)
       ELSE null
  /\ effectPending' = FALSE
  /\ UNCHANGED <<projects, activeRegion, hoveredRegion, globalTooltip, projectMarkers>>
  /\ UNCHANGED callVars

\* The parent renders ProjectMaps with a new projects array.
SetProjects ==
  /\ ~effectPending
  /\ \E render \in memoProjectMarkers :
       /\ projects' = render.projects
       /\ projectMarkers' = render.projectMarkers
  /\ effectPending' = TRUE
  /\ UNCHANGED <<activeRegion, hoveredRegion, globalTooltip, selectedProject, regionTooltip>>
  /\ UNCHANGED callVars

\* The state setter of activeRegion; the effect is due when the value changes.
setActiveRegion(regionId) ==
  /\ ~effectPending
  /\ activeRegion' = regionId
  /\ effectPending' = (regionId # activeRegion)
  /\ UNCHANGED <<projects, hoveredRegion, globalTooltip, selectedProject,
                 regionTooltip, projectMarkers>>
  /\ UNCHANGED callVars

\* onClick of a region path of the global map, or of a selector button.
SetActiveRegion ==
  \E i \in DOMAIN REGION_IDS : setActiveRegion(REGION_IDS[i])

\* The mistake of opening the hovered region's detailed map as well.
handleRegionMouseEnter_activating(region, event) ==
  /\ ~effectPending
  /\ IF event.ownerSVGElement = undefined
       THEN UNCHANGED <<hoveredRegion, globalTooltip, activeRegion, effectPending>>
       ELSE /\ hoveredRegion' = Some(region.id)
            /\ globalTooltip' = Some(tooltipAt("region", region, event))
            /\ activeRegion' = region.id
            /\ effectPending' = (region.id # activeRegion)
  /\ UNCHANGED <<projects, selectedProject, regionTooltip, projectMarkers>>
  /\ UNCHANGED callVars

handleRegionMouseEnter(region, event) ==
  /\ ~effectPending
  /\ IF event.ownerSVGElement = undefined
       THEN UNCHANGED <<hoveredRegion, globalTooltip>>
       ELSE /\ hoveredRegion' = Some(region.id)
            /\ globalTooltip' = Some(tooltipAt("region", region, event))
  /\ UNCHANGED <<projects, activeRegion, selectedProject, regionTooltip,
                 projectMarkers, effectPending>>
  /\ UNCHANGED callVars

\* onMouseEnter of a region path of the global map.
RegionMouseEnter ==
  \E i \in DOMAIN REGION_IDS, event \in MouseEvents :
    handleRegionMouseEnter(REGION_GEOMETRY(REGION_IDS[i]), event)

\* The mistake of highlighting the region in the move handler as well.
handleRegionMouseMove_highlighting(region, event) ==
  /\ ~effectPending
  /\ IF event.ownerSVGElement = undefined
       THEN UNCHANGED <<hoveredRegion, globalTooltip>>
       ELSE /\ hoveredRegion' = Some(region.id)
            /\ globalTooltip' = Some(tooltipAt("region", region, event))
  /\ UNCHANGED <<projects, activeRegion, selectedProject, regionTooltip,
                 projectMarkers, effectPending>>
  /\ UNCHANGED callVars

handleRegionMouseMove(region, event) ==
  /\ ~effectPending
  /\ IF event.ownerSVGElement = undefined
       THEN UNCHANGED globalTooltip
       ELSE globalTooltip' = Some(tooltipAt("region", region, event))
  /\ UNCHANGED <<projects, activeRegion, hoveredRegion, selectedProject,
                 regionTooltip, projectMarkers, effectPending>>
  /\ UNCHANGED callVars

\* onMouseMove of a region path of the global map.
RegionMouseMove ==
  \E i \in DOMAIN REGION_IDS, event \in MouseEvents :
    handleRegionMouseMove(REGION_GEOMETRY(REGION_IDS[i]), event)

\* The mistake of leaving the tooltip open when the pointer leaves.
handleRegionMouseLeave_keepTooltip ==
  /\ ~effectPending
  /\ hoveredRegion' = null
  /\ UNCHANGED <<projects, activeRegion, globalTooltip, selectedProject,
                 regionTooltip, projectMarkers, effectPending>>
  /\ UNCHANGED callVars

handleRegionMouseLeave ==
  /\ ~effectPending
  /\ hoveredRegion' = null
  /\ globalTooltip' = null
  /\ UNCHANGED <<projects, activeRegion, selectedProject, regionTooltip,
                 projectMarkers, effectPending>>
  /\ UNCHANGED callVars

handleMarkerMouseEnter(marker, event) ==
  /\ ~effectPending
  /\ IF event.ownerSVGElement = undefined
       THEN UNCHANGED regionTooltip
       ELSE regionTooltip' = Some(tooltipAt("marker", marker, event))
  /\ UNCHANGED <<projects, activeRegion, hoveredRegion, globalTooltip,
                 selectedProject, projectMarkers, effectPending>>
  /\ UNCHANGED callVars

\* onMouseEnter of a pin of the regional map: the pins are the markers of
\* the active region.
MarkerMouseEnter ==
  \E i \in DOMAIN activeRegionMarkers, event \in MouseEvents :
    handleMarkerMouseEnter(activeRegionMarkers[i], event)

handleMarkerMouseMove(marker, event) ==
  /\ ~effectPending
  /\ IF event.ownerSVGElement = undefined
       THEN UNCHANGED regionTooltip
       ELSE regionTooltip' = Some(tooltipAt("marker", marker, event))
  /\ UNCHANGED <<projects, activeRegion, hoveredRegion, globalTooltip,
                 selectedProject, projectMarkers, effectPending>>
  /\ UNCHANGED callVars

\* onMouseMove of a pin.
MarkerMouseMove ==
  \E i \in DOMAIN activeRegionMarkers, event \in MouseEvents :
    handleMarkerMouseMove(activeRegionMarkers[i], event)

handleMarkerMouseLeave ==
  /\ ~effectPending
  /\ activeRegionMarkers # <<>>
  /\ regionTooltip' = null
  /\ UNCHANGED <<projects, activeRegion, hoveredRegion, globalTooltip,
                 selectedProject, projectMarkers, effectPending>>
  /\ UNCHANGED callVars

\* () => { setSelectedProject(marker.project); setRegionTooltip(null); }
onMarkerClick(marker) ==
  /\ ~effectPending
  /\ selectedProject' = Some(marker.project)
  /\ regionTooltip' = null
  /\ UNCHANGED <<projects, activeRegion, hoveredRegion, globalTooltip,
                 projectMarkers, effectPending>>
  /\ UNCHANGED callVars

\* onClick of a marker pin.
MarkerClick ==
  \E i \in DOMAIN activeRegionMarkers : onMarkerClick(activeRegionMarkers[i])

\* The mistake of closing the marker tooltip from the list as well.
onListClick_closingTooltip(marker) ==
  /\ ~effectPending
  /\ selectedProject' = Some(marker.project)
  /\ regionTooltip' = null
  /\ UNCHANGED <<projects, activeRegion, hoveredRegion, globalTooltip,
                 projectMarkers, effectPending>>
  /\ UNCHANGED callVars

\* () => setSelectedProject(marker.project)
onListClick(marker) ==
  /\ ~effectPending
  /\ selectedProject' = Some(marker.project)
  /\ UNCHANGED <<projects, activeRegion, hoveredRegion, globalTooltip,
                 regionTooltip, projectMarkers, effectPending>>
  /\ UNCHANGED callVars

\* onClick of a button of the "Projects in this region" list.
ListClick ==
  \E i \in DOMAIN activeRegionMarkers : onListClick(activeRegionMarkers[i])

Next ==
  \/ RunEffect
  \/ SetProjects
  \/ SetActiveRegion
  \/ RegionMouseEnter
  \/ RegionMouseMove
  \/ handleRegionMouseLeave
  \/ MarkerMouseEnter
  \/ MarkerMouseMove
  \/ handleMarkerMouseLeave
  \/ MarkerClick
  \/ ListClick

Spec == Init /\ [][Next]_vars

(***************************************************************************)
(* src/components/theme-provider-context.ts: the theme context and its     *)
(* hook.  Rendering position is what the hook depends on: the value of the *)
(* nearest ThemeProviderContext.Provider above the caller, or no provider. *)
(* A call's outcome is a record: error holds the message of the Error      *)
(* thrown, returned holds the value returned; exactly one of them is set.  *)
(***************************************************************************)
THEMES == {"dark", "light", "system"}

\* ThemeProviderState: the theme and the setter the provider hands out.
ThemeProviderStates == { [theme |-> t, setTheme |-> "setTheme"] : t \in THEMES }

\* What is above the caller: no provider (<<>>), or a provider with its value
\* prop (ThemeProviderState | undefined).
ProviderInputs ==
  {<<>>} \cup {<<undefined>>} \cup { <<Some(s)>> : s \in ThemeProviderStates }

\* createContext<ThemeProviderState | undefined>(undefined) and useContext:
\* the nearest provider's value, the default when there is none.
useContext(provider) == IF provider = <<>> THEN undefined ELSE provider[1]

\* The mistake of returning the context unchecked.
useTheme_unchecked(provider) ==
  LET context == useContext(provider)
  IN  [error |-> <<>>, returned |-> <<context>>]

useTheme(provider) ==
  LET context == useContext(provider)
  IN  IF context = undefined
        THEN [error |-> <<"useTheme must be used within a ThemeProvider">>,
              returned |-> <<>>]
      ELSE [error |-> <<>>, returned |-> <<context>>]

(***************************************************************************)
(* Calls of the module-level functions.  A call is chosen in the initial   *)
(* state (fn, args, and no result yet) and its function is then applied;   *)
(* the component plays no part and stays as first rendered with no         *)
(* projects.                                                               *)
(***************************************************************************)
\* Project names: one to MaxNameParts of these, separated by a space.
NAME_PARTS ==
  << <<"I", "-", "6", "9">>, <<"I", "-", "6">>, <<"W", "i", "d", "e", "n", "i", "n", "g">>, <<"G", "r", "a", "n", "d">>, <<"P", "a", "r", "k", "w", "a", "y">>,
     <<"A", "n", "d", "o", "a", "i", "n", " ", "t", "o">>, <<"U", "r", "n", "i", "e", "t", "a">>, <<"M", "A", "D", "R", "I", "D">> >>

NameChoices == UNION { [1..n -> DOMAIN NAME_PARTS] : n \in 1..MaxNameParts }

nameOf(choice) == join([i \in DOMAIN choice |-> NAME_PARTS[choice[i]]], <<" ">>)

LOCATION_INPUTS ==
  { undefined, Some(<<>>), Some(<<"P", "a", "r", "k", "w", "a", "y">>), Some(<<"9">>), Some(<<"U", "r", "n", "i", "e", "t", "a", ",", " ", "S", "p", "a", "i", "n">>),
    Some(<<"G", "r", "a", "n", "d", " ", "P", "a", "r", "k", "w", "a", "y", ",", " ", "T", "X">>) }

MatchInputs ==
  { [name |-> nameOf(choice), location |-> loc, value |-> "v1"] :
      choice \in NameChoices, loc \in LOCATION_INPUTS }

\* Points: the origin, (12.5, 225), (-0.001, 1.005), (899.9951, -123.4567),
\* and the projected label position of the 'usa' region.
POINT_INPUTS ==
  { [x |-> 0, y |-> 0],
    [x |-> 125000, y |-> 2250000],
    [x |-> -10, y |-> 10050],
    [x |-> 8999951, y |-> -1234567],
    polygonToPoints(<<[lon |-> -97 * Deg, lat |-> 39 * Deg]>>)[1] }

PointSeqInputs == UNION { [1..n -> POINT_INPUTS] : n \in 0..MaxPoints }

\* Paddings: omitted, 0, 0.5, 28 (a focusPadding of the source), -40, -0.25.
PADDING_INPUTS ==
  { undefined, Some(0), Some(5000), Some(28 * Unit), Some(-40 * Unit), Some(-2500) }

ViewBoxInputs ==
  { [points |-> pts, padding |-> pad] : pts \in PointSeqInputs, pad \in PADDING_INPUTS }

LON_INPUTS == { -180 * Deg, -97 * Deg, -76992, 0, 2820, 180 * Deg }
LAT_INPUTS ==
  { -120 * Deg, -90 * Deg, -86 * Deg, -85 * Deg, -45 * Deg, 0, 6244, 39533,
    60 * Deg, 84 * Deg, 85 * Deg, 86 * Deg, 90 * Deg, 120 * Deg }

LonLatInputs == { [lon |-> lon, lat |-> lat] : lon \in LON_INPUTS, lat \in LAT_INPUTS }

CallInit(f, a) == fn = f /\ args = a /\ ret = <<>> /\ calls = {}

InitCalls ==
  /\ CompInit([projects |-> <<>>, projectMarkers |-> computeProjectMarkers(<<>>)])
  /\ \/ \E a \in LonLatInputs   : CallInit("projectPoint", a)
     \/ \E a \in PointSeqInputs : CallInit("pointsToPath", a)
     \/ \E a \in ViewBoxInputs  : CallInit("pointsToViewBox", a)
     \/ \E a \in MatchInputs    : CallInit("matchProjectToLocation", a)
     \/ \E a \in ProviderInputs : CallInit("useTheme", a)

Pending(f) == fn = f /\ ret = <<>>
Returned(f) == fn = f /\ ret # <<>>

CallProjectPoint ==
  /\ Pending("projectPoint")
  /\ ret' = Some(projectPoint(args.lon, args.lat))
  /\ calls' = calls \cup {<<args, projectPoint(args.lon, args.lat)>>}
  /\ UNCHANGED <<fn, args>>
  /\ UNCHANGED compVars

CallPointsToPath ==
  /\ Pending("pointsToPath")
  /\ ret' = Some(pointsToPath(args))
  /\ UNCHANGED <<fn, args, calls>>
  /\ UNCHANGED compVars

CallPointsToViewBox ==
  /\ Pending("pointsToViewBox")
  /\ ret' = Some(pointsToViewBox(args.points, args.padding))
  /\ UNCHANGED <<fn, args, calls>>
  /\ UNCHANGED compVars

CallMatchProjectToLocation ==
  /\ Pending("matchProjectToLocation")
  /\ ret' = Some(matchProjectToLocation(args))
  /\ UNCHANGED <<fn, args, calls>>
  /\ UNCHANGED compVars

CallUseTheme ==
  /\ Pending("useTheme")
  /\ ret' = Some(useTheme(args))
  /\ UNCHANGED <<fn, args, calls>>
  /\ UNCHANGED compVars

NextCalls ==
  \/ CallProjectPoint
  \/ CallPointsToPath
  \/ CallPointsToViewBox
  \/ CallMatchProjectToLocation
  \/ CallUseTheme

SpecCalls == InitCalls /\ [][NextCalls]_vars


(***************************************************************************)
(* The component with calls of projectPoint in between: the function is    *)
(* applied, in one step, in whatever state the component is in (during a   *)
(* render, between two events, before or after the effect), and every call *)
(* is added to calls.                                                      *)
(***************************************************************************)
\* (-97, 39), the label position of the 'usa' region, and (0, 86), which is
\* beyond the clamp.
PROBE_INPUTS ==
  { [lon |-> -97 * Deg, lat |-> 39 * Deg], [lon |-> 0, lat |-> 86 * Deg] }

InvokeProjectPoint ==
  /\ \E a \in PROBE_INPUTS :
       /\ fn' = "projectPoint"
       /\ args' = a
       /\ ret' = Some(projectPoint(a.lon, a.lat))
       /\ calls' = calls \cup {<<a, projectPoint(a.lon, a.lat)>>}
  /\ UNCHANGED compVars

\* The component's steps under one projects prop, and the calls.
NextInterleaved ==
  \/ RunEffect
  \/ SetActiveRegion
  \/ RegionMouseEnter
  \/ RegionMouseMove
  \/ handleRegionMouseLeave
  \/ MarkerMouseEnter
  \/ MarkerMouseMove
  \/ handleMarkerMouseLeave
  \/ MarkerClick
  \/ ListClick
  \/ InvokeProjectPoint

SpecInterleaved == Init /\ [][NextInterleaved]_vars
(***************************************************************************)
(* Reading results back: the helpers the properties below are stated with. *)
(***************************************************************************)
RECURSIVE Split(_, _)
\* The pieces of s between the occurrences of the character sep.
Split(s, sep) ==
  IF \A i \in DOMAIN s : s[i] # sep THEN <<s>>
  ELSE LET k == SetMin({i \in DOMAIN s : s[i] = sep})
       IN  <<SubSeq(s, 1, k - 1)>> \o Split(SubSeq(s, k + 1, Len(s)), sep)

IsDigits(s) == s # <<>> /\ \A i \in DOMAIN s : \E d \in DOMAIN DIGITS : DIGITS[d] = s[i]

DigitValue(c) == (CHOOSE d \in DOMAIN DIGITS : DIGITS[d] = c) - 1

RECURSIVE NatOf(_)
NatOf(s) == IF s = <<>> THEN 0 ELSE 10 * NatOf(SubSeq(s, 1, Len(s) - 1)) + DigitValue(s[Len(s)])

Unsigned(s) == IF s # <<>> /\ s[1] = "-" THEN Tail(s) ELSE s

\* s is a decimal literal: an optional "-", digits, and optionally "." and
\* one to four more digits.
IsDecimal(s) ==
  LET parts == Split(Unsigned(s), ".")
  IN  /\ Len(parts) \in {1, 2}
      /\ IsDigits(parts[1])
      /\ Len(parts) = 2 => IsDigits(parts[2]) /\ Len(parts[2]) <= 4

\* s is a decimal literal with exactly two decimals.
IsTwoDecimals(s) ==
  LET parts == Split(Unsigned(s), ".")
  IN  Len(parts) = 2 /\ IsDigits(parts[1]) /\ IsDigits(parts[2]) /\ Len(parts[2]) = 2

RECURSIVE PadRight(_, _)
PadRight(s, len) == IF Len(s) >= len THEN s ELSE PadRight(Append(s, "0"), len)

\* The number a decimal literal denotes, in 1/Unit.
DecimalValue(s) ==
  LET parts == Split(Unsigned(s), ".")
      mag   == NatOf(parts[1]) * Unit
                 + (IF Len(parts) = 2 THEN NatOf(PadRight(parts[2], 4)) ELSE 0)
  IN  IF s[1] = "-" THEN -mag ELSE mag

\* The entries of PROJECT_LOCATIONS (by index) with a keyword inside s.
EntriesWithKeywordIn(s) ==
  { i \in DOMAIN PROJECT_LOCATIONS :
      \E k \in DOMAIN PROJECT_LOCATIONS[i].keywords :
        includes(s, PROJECT_LOCATIONS[i].keywords[k]) }

\* The number of keywords of entry i inside s, and the longest of them.
KeywordsIn(i, s) ==
  { k \in DOMAIN PROJECT_LOCATIONS[i].keywords :
      includes(s, PROJECT_LOCATIONS[i].keywords[k]) }
LongestKeywordIn(i, s) ==
  SetMax({Len(PROJECT_LOCATIONS[i].keywords[k]) : k \in KeywordsIn(i, s)})

\* name, a space, and the location ('' when there is none), lowercased.
SpacedSearchString(project) ==
  toLowerCase(project.name) \o <<" ">> \o
  (IF project.location = undefined THEN <<>> ELSE toLowerCase(project.location[1]))

\* name directly followed by the location, lowercased.
PlainSearchString(project) ==
  toLowerCase(project.name) \o
  (IF project.location = undefined THEN <<>> ELSE toLowerCase(project.location[1]))

(***************************************************************************)
(* C1.  matchProjectToLocation returns the first entry of                  *)
(* PROJECT_LOCATIONS, in declaration order, one of whose keywords occurs   *)
(* in the search string; when several entries match, the earliest wins     *)
(* whatever the keywords' lengths or numbers (and no entry: undefined).    *)
(***************************************************************************)
C1_FirstDeclaredMatchWins ==
  Returned("matchProjectToLocation") =>
    LET hits == EntriesWithKeywordIn(haystackOf(args))
    IN  IF hits = {} THEN ret[1] = undefined
        ELSE /\ ret[1] # undefined
             /\ \E i \in hits :
                  /\ ret[1][1] = PROJECT_LOCATIONS[i]
                  /\ \A j \in hits : i <= j

\* A call where two entries match and the later one has more matching
\* keywords and a longer one, and the earlier entry was returned.
C1_Witness ==
  /\ Returned("matchProjectToLocation")
  /\ LET s    == haystackOf(args)
         hits == EntriesWithKeywordIn(s)
     IN  /\ Cardinality(hits) >= 2
         /\ \E i, j \in hits :
              /\ i < j
              /\ Cardinality(KeywordsIn(j, s)) > Cardinality(KeywordsIn(i, s))
              /\ LongestKeywordIn(j, s) > LongestKeywordIn(i, s)
              /\ ret[1] = Some(PROJECT_LOCATIONS[i])

(***************************************************************************)
(* C2.  projectMarkers holds one marker for each project that              *)
(* matchProjectToLocation matches and none for the others, in the order    *)
(* of the projects list; a marker carries the matched entry's regionId,    *)
(* coords and label, and point = projectPoint(coords.lon, coords.lat).     *)
(***************************************************************************)
\* The match of every project the parent can pass.
PoolMatches == { <<p, matchProjectToLocation(p)>> : p \in PROJECT_POOL }
PoolMatch(p) == (CHOOSE m \in PoolMatches : m[1] = p)[2]

MatchedIndexes == { i \in DOMAIN projects : PoolMatch(projects[i]) # undefined }

C2_OneMarkerPerMatchedProject ==
  /\ Len(projectMarkers) = Cardinality(MatchedIndexes)
  /\ \A i \in MatchedIndexes :
       LET k      == Cardinality({j \in MatchedIndexes : j <= i})
           entry  == PoolMatch(projects[i])[1]
           marker == projectMarkers[k]
       IN  /\ marker.project = projects[i]
           /\ marker.regionId = entry.regionId
           /\ marker.coords = entry.coords
           /\ marker.label = entry.label
           /\ marker.point = projectPoint(entry.coords.lon, entry.coords.lat)

\* Two projects matched to different entries: their markers follow the
\* list's order.
C2_OrderWitness ==
  /\ Len(projects) = 2
  /\ Len(projectMarkers) = 2
  /\ projectMarkers[1].label # projectMarkers[2].label
  /\ projectMarkers[1].project = projects[1]
  /\ ~effectPending
  /\ selectedProject # null

\* A list whose first project matches nothing and whose second does: one
\* marker, the second project's.
C2_Witness ==
  /\ Len(projects) = 2
  /\ PoolMatch(projects[1]) = undefined
  /\ Len(projectMarkers) = 1
  /\ projectMarkers[1].project = projects[2]

(***************************************************************************)
(* C3.  As claimed: the search string is the lowercased name directly      *)
(* followed by the location, so the result is the first entry with a       *)
(* keyword in that string, and undefined when it holds no keyword.         *)
(***************************************************************************)
C3_PlainConcatenation ==
  Returned("matchProjectToLocation") =>
    LET hits == EntriesWithKeywordIn(PlainSearchString(args))
    IN  IF hits = {} THEN ret[1] = undefined
        ELSE ret[1] = Some(PROJECT_LOCATIONS[SetMin(hits)])

(***************************************************************************)
(* C3, amended.  The search string is the lowercased name, one space, and  *)
(* the lowercased location ('' when absent): the result is the first entry *)
(* with a keyword in that string, undefined when it holds none; a project  *)
(* named "I-69 Widening", with no location, gets the entry with the        *)
(* keyword "i-69".                                                         *)
(***************************************************************************)
C3_SpacedConcatenation ==
  Returned("matchProjectToLocation") =>
    LET hits == EntriesWithKeywordIn(SpacedSearchString(args))
    IN  /\ IF hits = {} THEN ret[1] = undefined
           ELSE ret[1] = Some(PROJECT_LOCATIONS[SetMin(hits)])
        /\ (args.name = <<"I", "-", "6", "9", " ", "W", "i", "d", "e", "n", "i", "n", "g">> /\ args.location = undefined) =>
             /\ ret[1] # undefined
             /\ \E k \in DOMAIN ret[1][1].keywords : ret[1][1].keywords[k] = <<"i", "-", "6", "9">>

\* A project named "I-69 Widening", with no location, was matched to the
\* entry of "i-69".
C3_Witness ==
  /\ Returned("matchProjectToLocation")
  /\ args.name = <<"I", "-", "6", "9", " ", "W", "i", "d", "e", "n", "i", "n", "g">>
  /\ args.location = undefined
  /\ ret[1] # undefined
  /\ ret[1][1].label = <<"B", "l", "o", "o", "m", "i", "n", "g", "t", "o", "n", ",", " ", "I", "N">>

(***************************************************************************)
(* The viewBox string read back as four numbers.                           *)
(***************************************************************************)
ViewBoxParts == Split(ret[1], " ")
ViewBoxWellFormed ==
  Len(ViewBoxParts) = 4 /\ \A i \in 1..4 : IsDecimal(ViewBoxParts[i])
ViewBoxMinX   == DecimalValue(ViewBoxParts[1])
ViewBoxMinY   == DecimalValue(ViewBoxParts[2])
ViewBoxWidth  == DecimalValue(ViewBoxParts[3])
ViewBoxHeight == DecimalValue(ViewBoxParts[4])

\* The padding of the call: 32 when the argument is omitted.
PaddingUsed == IF args.padding = undefined THEN 32 * Unit ELSE args.padding[1]

PointsInsideViewBox ==
  /\ ViewBoxWellFormed
  /\ \A i \in DOMAIN args.points :
       /\ ViewBoxMinX <= args.points[i].x
       /\ args.points[i].x <= ViewBoxMinX + ViewBoxWidth
       /\ ViewBoxMinY <= args.points[i].y
       /\ args.points[i].y <= ViewBoxMinY + ViewBoxHeight

(***************************************************************************)
(* C4.  As claimed: for a non-empty point sequence and any padding, every  *)
(* point lies inside the returned viewBox rectangle.                       *)
(***************************************************************************)
C4_PointsInsideForAnyPadding ==
  (Returned("pointsToViewBox") /\ args.points # <<>>) => PointsInsideViewBox

(***************************************************************************)
(* C4, amended.  For a non-empty point sequence and any padding >= 0       *)
(* (the default included), every point lies inside the returned viewBox    *)
(* rectangle: minX <= p.x <= minX + width and minY <= p.y <= minY + height.*)
(***************************************************************************)
C4_PointsInsideForNonNegativePadding ==
  (Returned("pointsToViewBox") /\ args.points # <<>> /\ PaddingUsed >= 0)
    => PointsInsideViewBox

\* A call with several distinct points and a positive padding.
C4_Witness ==
  /\ Returned("pointsToViewBox")
  /\ Len(args.points) >= 2
  /\ \E i, j \in DOMAIN args.points :
       args.points[i].x < args.points[j].x /\ args.points[i].y > args.points[j].y
  /\ args.padding # undefined
  /\ PaddingUsed > 0

(***************************************************************************)
(* C5.  For a non-empty point sequence the viewBox is                      *)
(* "minx-p miny-p max(maxx-minx+2p, 1) max(maxy-miny+2p, 1)" with p the    *)
(* padding, which is 32 when omitted.                                      *)
(***************************************************************************)
C5_PaddedBoundingBox ==
  (Returned("pointsToViewBox") /\ args.points # <<>>) =>
    LET xs == {args.points[i].x : i \in DOMAIN args.points}
        ys == {args.points[i].y : i \in DOMAIN args.points}
        p  == PaddingUsed
    IN  /\ ViewBoxWellFormed
        /\ ViewBoxMinX = SetMin(xs) - p
        /\ ViewBoxMinY = SetMin(ys) - p
        /\ ViewBoxWidth = Max2(SetMax(xs) - SetMin(xs) + 2 * p, 1 * Unit)
        /\ ViewBoxHeight = Max2(SetMax(ys) - SetMin(ys) + 2 * p, 1 * Unit)
        /\ ViewBoxWidth >= 1 * Unit
        /\ ViewBoxHeight >= 1 * Unit

\* A call with the padding omitted and points spread on both axes.
C5_Witness ==
  /\ Returned("pointsToViewBox")
  /\ args.padding = undefined
  /\ Len(args.points) = 3
  /\ Cardinality({args.points[i].x : i \in DOMAIN args.points}) = 3
  /\ ViewBoxWidth > 64 * Unit

\* A call where the floor of 1 decides the size.
C5_FloorWitness ==
  /\ Returned("pointsToViewBox")
  /\ args.points # <<>>
  /\ ViewBoxWidth = 1 * Unit
  /\ ViewBoxHeight = 1 * Unit

(***************************************************************************)
(* C6.  For an empty point sequence the viewBox is "0 0 900 450", whatever *)
(* the padding.                                                            *)
(***************************************************************************)
C6_EmptyGivesFullCanvas ==
  (Returned("pointsToViewBox") /\ args.points = <<>>) => ret[1] = <<"0", " ", "0", " ", "9", "0", "0", " ", "4", "5", "0">>

\* A call with no points and a padding that would have moved the box.
C6_Witness ==
  /\ Returned("pointsToViewBox")
  /\ args.points = <<>>
  /\ args.padding = Some(28 * Unit)

(***************************************************************************)
(* A path command read back: its letter and its two coordinates.           *)
(***************************************************************************)
\* text is a two-decimal literal of the multiple of 0.01 nearest to value.
WritesTwoDecimalsOf(text, value) ==
  /\ IsTwoDecimals(text)
  /\ 2 * Abs(DecimalValue(text) - value) <= Unit \div 100

\* command is letter, then "x,y" for the point, two decimals each.
IsCommandFor(command, letter, point) ==
  /\ command # <<>>
  /\ command[1] = letter
  /\ LET xy == Split(Tail(command), ",")
     IN  /\ Len(xy) = 2
         /\ WritesTwoDecimalsOf(xy[1], point.x)
         /\ WritesTwoDecimalsOf(xy[2], point.y)

Occurrences(s, c) == Cardinality({i \in DOMAIN s : s[i] = c})

(***************************************************************************)
(* C7.  pointsToPath of the empty sequence is the empty string; of a       *)
(* single point p it is "M{x},{y} Z", x and y being p's coordinates        *)
(* (written with two decimals).                                            *)
(***************************************************************************)
C7_EmptyAndSinglePointPath ==
  Returned("pointsToPath") =>
    /\ Len(args) = 0 => ret[1] = <<>>
    /\ Len(args) = 1 =>
         /\ Len(ret[1]) >= 3
         /\ SubSeq(ret[1], Len(ret[1]) - 1, Len(ret[1])) = <<" ", "Z">>
         /\ IsCommandFor(SubSeq(ret[1], 1, Len(ret[1]) - 2), "M", args[1])

\* The call with no points has returned.
C7_EmptyWitness == Returned("pointsToPath") /\ args = <<>> /\ ret[1] = <<>>

\* A call with one point has returned.
C7_Witness ==
  /\ Returned("pointsToPath")
  /\ Len(args) = 1
  /\ args[1].x # 0
  /\ ret[1][1] = "M"

(***************************************************************************)
(* C8.  For n >= 1 points the path is n commands in input order, the first *)
(* an 'M' and the others 'L', each with two-decimal coordinates, then one  *)
(* 'Z' at the end, whether or not the first and last points are equal.     *)
(***************************************************************************)
C8_MoveLinesClose ==
  (Returned("pointsToPath") /\ Len(args) >= 1) =>
    LET tokens == Split(ret[1], " ")
        n      == Len(args)
    IN  /\ Len(tokens) = n + 1
        /\ tokens[n + 1] = <<"Z">>
        /\ \A i \in 1..n :
             IsCommandFor(tokens[i], IF i = 1 THEN "M" ELSE "L", args[i])
        /\ Occurrences(ret[1], "Z") = 1
        /\ Occurrences(ret[1], "M") = 1
        /\ Occurrences(ret[1], "L") = n - 1

\* A call with three points, the first and the last different, and a
\* coordinate that two decimals cannot hold.
C8_Witness ==
  /\ Returned("pointsToPath")
  /\ Len(args) = 3
  /\ args[1] # args[3]
  /\ args[2].x % (Unit \div 100) # 0
  /\ Occurrences(ret[1], "L") = 2

\* A call whose first and last points are equal.
C8_ClosedWitness ==
  /\ Returned("pointsToPath")
  /\ Len(args) = 3
  /\ args[1] = args[3]
  /\ args[1] # args[2]
  /\ ret[1][Len(ret[1])] = "Z"

(***************************************************************************)
(* C9.  The latitude is clamped to [-85, 85]: above 85 the result is that  *)
(* of latitude 85, below -85 that of -85, and in between the latitude is   *)
(* used as it is.                                                          *)
(***************************************************************************)
C9_LatitudeClamped ==
  Returned("projectPoint") =>
    /\ args.lat > 85 * Deg => ret[1] = projectPoint(args.lon, 85 * Deg)
    /\ args.lat < -85 * Deg => ret[1] = projectPoint(args.lon, -85 * Deg)
    /\ (args.lat >= -85 * Deg /\ args.lat <= 85 * Deg) =>
         ret[1].y = (GLOBAL_HEIGHT * Unit) \div 2 - mercatorTerm(args.lat)

\* projectPoint(lon, 86) has returned.
C9_Witness ==
  /\ Returned("projectPoint")
  /\ args.lat = 86 * Deg
  /\ ret[1].y = projectPoint(args.lon, 85 * Deg).y

(***************************************************************************)
(* C10.  x = (lon + 180) / 360 * W with W = 900: x is 0 at lon = -180 and  *)
(* W at lon = 180, and does not depend on the latitude.                    *)
(***************************************************************************)
C10_LongitudeLinear ==
  Returned("projectPoint") =>
    \* x / Unit = (lon / Deg + 180) / 360 * 900, cross-multiplied and with
    \* both sides divided by 10 * Deg
    /\ ret[1].x * 36 = (args.lon + 180 * Deg) * 90 * (Unit \div Deg)
    /\ args.lon = -180 * Deg => ret[1].x = 0
    /\ args.lon = 180 * Deg => ret[1].x = 900 * Unit
    /\ \A lat \in LAT_INPUTS : projectPoint(args.lon, lat).x = ret[1].x

\* projectPoint(180, 0) has returned W.
C10_Witness ==
  /\ Returned("projectPoint")
  /\ args.lon = 180 * Deg
  /\ args.lat = 0
  /\ ret[1].x = GLOBAL_WIDTH * Unit


(***************************************************************************)
(* C11.  For a fixed longitude, y decreases as the latitude increases over *)
(* [-85, 85] (north is up), and y does not depend on the longitude.  The   *)
(* returned y is compared with the y of every tabulated latitude of the    *)
(* range: the whole degrees and the latitudes of PROJECT_LOCATIONS.        *)
(***************************************************************************)
LatitudesInRange ==
  { row[1] : row \in { r \in MERCATOR_TABLE : r[1] >= -85 * Deg /\ r[1] <= 85 * Deg } }

C11_NorthIsUp ==
  (Returned("projectPoint") /\ args.lat \in LatitudesInRange) =>
    /\ \A lat \in LatitudesInRange :
         /\ lat > args.lat => projectPoint(args.lon, lat).y < ret[1].y
         /\ lat < args.lat => projectPoint(args.lon, lat).y > ret[1].y
    /\ \A lon \in LON_INPUTS : projectPoint(lon, args.lat).y = ret[1].y

\* projectPoint(-97, 6.244) has returned: a latitude between two whole
\* degrees, with y between the y of 6 and of 7 degrees north.
C11_Witness ==
  /\ Returned("projectPoint")
  /\ args.lon = -97 * Deg
  /\ args.lat = 6244
  /\ ret[1].y < projectPoint(0, 6 * Deg).y
  /\ ret[1].y > projectPoint(0, 7 * Deg).y

(***************************************************************************)
(* C12.  projectPoint is deterministic and independent of the state: the   *)
(* calls made so far, in whatever component states and after whatever      *)
(* other calls, hold one result per argument pair, and a call leaves the   *)
(* component's state as it was.                                            *)
(***************************************************************************)
OneResultPerArguments ==
  \A c \in calls, d \in calls : c[1] = d[1] => c[2] = d[2]

C13_DerivedFromProjectsOnly ==
  /\ [](projectMarkers = computeProjectMarkers(projects))
  /\ [][projects' = projects =>
          /\ projectMarkers' = projectMarkers
          /\ projectsByRegion' = projectsByRegion
          /\ regionCounts' = regionCounts]_vars

\* Markers in two regions, and the interface away from its initial state:
\* another region active, a region hovered, a project selected and a marker
\* tooltip open.
C13_Witness ==
  /\ regionCounts["usa"] = 1
  /\ regionCounts["europe"] = 1
  /\ Len(projectsByRegion["europe"]) = 1
  /\ activeRegion = "europe"
  /\ hoveredRegion # null
  /\ selectedProject # null
  /\ regionTooltip # null

(***************************************************************************)
(* C14.  useTheme throws an Error with the message "useTheme must be used  *)
(* within a ThemeProvider" when there is no provider value (the context is *)
(* undefined), returns the provider's state object unchanged otherwise,    *)
(* and never returns undefined.                                            *)
(***************************************************************************)
C14_ThrowsWithoutProvider ==
  Returned("useTheme") =>
    LET outcome  == ret[1]
        hasValue == args # <<>> /\ args[1] # undefined
    IN  /\ ~hasValue =>
             /\ outcome.error = <<"useTheme must be used within a ThemeProvider">>
             /\ outcome.returned = <<>>
        /\ hasValue =>
             /\ outcome.error = <<>>
             /\ outcome.returned = <<args[1]>>
        /\ outcome.returned # <<undefined>>

\* useTheme has thrown, called with no provider above it.
C14_Witness ==
  /\ Returned("useTheme")
  /\ args = <<>>
  /\ ret[1].error # <<>>

\* useTheme has returned the state of a provider whose theme is "dark".
C14_ReturnWitness ==
  /\ Returned("useTheme")
  /\ args # <<>>
  /\ ret[1].returned = <<Some([theme |-> "dark", setTheme |-> "setTheme"])>>

(***************************************************************************)
(* C15.  activeRegion is 'usa' at first and always one of the three region *)
(* ids; a click on region r's path or selector button sets it to r; no     *)
(* other step (hover, marker click, list click, the effect, a new projects *)
(* prop) changes it.                                                       *)
(***************************************************************************)
RegionIdSet == { REGION_IDS[i] : i \in DOMAIN REGION_IDS }

C15_ActiveRegionFollowsClicks ==
  /\ activeRegion = "usa"
  /\ [](activeRegion \in {"usa", "europe", "south-america"})
  /\ [][\A r \in RegionIdSet : setActiveRegion(r) => activeRegion' = r]_vars
  /\ [][activeRegion' # activeRegion => \E r \in RegionIdSet : setActiveRegion(r)]_vars

\* 'south-america' has been clicked and its effect has run, while 'usa' is
\* the hovered region.
C15_Witness ==
  /\ activeRegion = "south-america"
  /\ ~effectPending
  /\ hoveredRegion = Some("usa")

(***************************************************************************)
(* C16.  When activeRegion or the active region's marker list changes, the *)
(* effect is due, and the step that follows is the effect: it sets         *)
(* regionTooltip to null, and selectedProject to the previous selection if *)
(* a marker of the active region has a project of the same name, else to   *)
(* the project of the region's first marker, else (no markers) to null.    *)
(***************************************************************************)
ActiveMarkerNames ==
  { activeRegionMarkers[i].project.name : i \in DOMAIN activeRegionMarkers }

SelectionAfterEffect ==
  IF selectedProject # null /\ selectedProject[1].name \in ActiveMarkerNames
    THEN selectedProject
  ELSE IF Len(activeRegionMarkers) > 0 THEN Some(activeRegionMarkers[1].project)
  ELSE null

C16_EffectResetsSelection ==
  /\ [][(activeRegion' # activeRegion \/ activeRegionMarkers' # activeRegionMarkers)
          => effectPending']_vars
  /\ [][effectPending =>
          /\ ~effectPending'
          /\ regionTooltip' = null
          /\ selectedProject' = SelectionAfterEffect
          /\ activeRegion' = activeRegion
          /\ activeRegionMarkers' = activeRegionMarkers]_vars

\* The effect has kept the previous selection: the selected project has the
\* name of the project of the second marker of the active region, and is not
\* the project of the first.
C16_Witness ==
  /\ ~effectPending
  /\ regionTooltip = null
  /\ Len(activeRegionMarkers) = 2
  /\ selectedProject # null
  /\ selectedProject[1].name = activeRegionMarkers[2].project.name
  /\ selectedProject[1].name # activeRegionMarkers[1].project.name
  /\ selectedProject[1] # activeRegionMarkers[2].project

\* The effect has selected the first marker's project of a region other than
\* the initial one, and has selected nothing in a region with no markers.
C16_FirstMarkerWitness ==
  /\ ~effectPending
  /\ activeRegion = "europe"
  /\ activeRegionMarkers # <<>>
  /\ selectedProject = Some(activeRegionMarkers[1].project)

C16_NoMarkerWitness ==
  /\ ~effectPending
  /\ activeRegion = "south-america"
  /\ projectMarkers # <<>>
  /\ activeRegionMarkers = <<>>
  /\ selectedProject = null

(***************************************************************************)
(* C17.  In every settled state (the effect has run), selectedProject is   *)
(* null exactly when the active region has no markers, and is otherwise    *)
(* the project object of a marker of the active region computed from the   *)
(* current projects list.                                                  *)
(***************************************************************************)
ActiveMarkerProjects ==
  { activeRegionMarkers[i].project : i \in DOMAIN activeRegionMarkers }

C17_SelectionIsCurrentMarker ==
  ~effectPending =>
    /\ selectedProject = null <=> activeRegionMarkers = <<>>
    /\ selectedProject # null => selectedProject[1] \in ActiveMarkerProjects

\* What does hold in every settled state: the selection is null exactly when
\* the active region has no markers, and otherwise carries the name of the
\* project of one of its markers.
C17_SelectionHasActiveName ==
  ~effectPending =>
    /\ selectedProject = null <=> activeRegionMarkers = <<>>
    /\ selectedProject # null => selectedProject[1].name \in ActiveMarkerNames

\* A settled state whose selection is an object of an earlier projects list:
\* no marker of the current list holds it.
C17_StaleSelection ==
  /\ ~effectPending
  /\ selectedProject # null
  /\ selectedProject[1].name \in ActiveMarkerNames
  /\ selectedProject[1] \notin ActiveMarkerProjects

(***************************************************************************)
(* C18.  In every settled state (the effect has run), regionTooltip is     *)
(* null or shows a marker of the active region: a marker tooltip opened in *)
(* one region is not shown after the switch to another.                    *)
(***************************************************************************)
C18_TooltipOfActiveRegion ==
  ~effectPending =>
    (regionTooltip # null => regionTooltip[1].marker.regionId = activeRegion)

\* A marker tooltip is open in the 'europe' region, which was switched to.
C18_Witness ==
  /\ ~effectPending
  /\ activeRegion = "europe"
  /\ regionTooltip # null
  /\ regionTooltip[1].marker.regionId = "europe"

\* 'south-america', which has no markers, is active while 'usa' has some, and
\* no tooltip is shown.
C18_ClosedWitness ==
  /\ ~effectPending
  /\ activeRegion = "south-america"
  /\ regionCounts["usa"] > 0
  /\ regionTooltip = null

(***************************************************************************)
(* C19.  The region hover handlers.  Mouse-enter on region r with an owner *)
(* <svg> sets hoveredRegion to r and globalTooltip to r's tooltip;         *)
(* mouse-move on r replaces globalTooltip and keeps hoveredRegion;         *)
(* mouse-leave sets both to null; enter and move change nothing when the   *)
(* owner <svg> is missing; none of the three changes activeRegion,         *)
(* selectedProject or regionTooltip; and a switch of activeRegion, with    *)
(* the effect that follows it, keeps hoveredRegion and globalTooltip.      *)
(***************************************************************************)
TooltipOfRegion(r, event) ==
  [ region |-> REGION_GEOMETRY(r),
    x      |-> event.clientX - event.ownerSVGElement[1].left,
    y      |-> event.clientY - event.ownerSVGElement[1].top,
    width  |-> event.ownerSVGElement[1].width,
    height |-> event.ownerSVGElement[1].height ]

C19_RegionHoverHandlers ==
  /\ [][\A r \in RegionIdSet, event \in MouseEvents :
          /\ handleRegionMouseEnter(REGION_GEOMETRY(r), event) =>
               /\ event.ownerSVGElement # undefined =>
                    /\ hoveredRegion' = Some(r)
                    /\ globalTooltip' = Some(TooltipOfRegion(r, event))
               /\ event.ownerSVGElement = undefined =>
                    UNCHANGED <<hoveredRegion, globalTooltip>>
               /\ UNCHANGED <<activeRegion, selectedProject, regionTooltip>>
          /\ handleRegionMouseMove(REGION_GEOMETRY(r), event) =>
               /\ event.ownerSVGElement # undefined =>
                    globalTooltip' = Some(TooltipOfRegion(r, event))
               /\ event.ownerSVGElement = undefined => UNCHANGED globalTooltip
               /\ UNCHANGED <<hoveredRegion, activeRegion, selectedProject,
                              regionTooltip>>]_vars
  /\ [][handleRegionMouseLeave =>
          /\ hoveredRegion' = null
          /\ globalTooltip' = null
          /\ UNCHANGED <<activeRegion, selectedProject, regionTooltip>>]_vars
  /\ [][(activeRegion' # activeRegion \/ RunEffect) =>
          UNCHANGED <<hoveredRegion, globalTooltip>>]_vars

\* 'europe' was entered and stays hovered, with its tooltip, after the switch
\* to 'south-america' and the effect.
C19_Witness ==
  /\ ~effectPending
  /\ activeRegion = "south-america"
  /\ hoveredRegion = Some("europe")
  /\ globalTooltip # null
  /\ globalTooltip[1].region.id = "europe"
  /\ globalTooltip[1].x = 90

\* A move over 'usa' has replaced the tooltip while 'europe' stays the
\* hovered region.
C19_MoveWitness ==
  /\ hoveredRegion = Some("europe")
  /\ globalTooltip # null
  /\ globalTooltip[1].region.id = "usa"

(***************************************************************************)
(* C20.  After any sequence, in any order, of region mouse-enter,          *)
(* mouse-move and mouse-leave, hoveredRegion is non-null exactly when      *)
(* globalTooltip is, and then globalTooltip.region.id = hoveredRegion.     *)
(* This fails for a mouse-move on a region that is not the hovered one;    *)
(* what holds is C20_HoverImpliesTooltip below.                            *)
(***************************************************************************)
HoverMatchesTooltip ==
  /\ hoveredRegion # null <=> globalTooltip # null
  /\ hoveredRegion # null => globalTooltip[1].region.id = hoveredRegion[1]

C20_HoverMatchesTooltipAlways == HoverMatchesTooltip

\* C20, amended.  A highlighted region always has a tooltip; the two agree
\* after a mouse-enter with an owner <svg> and after a mouse-leave; and the
\* only step that ends their agreement is a mouse-move on a region other
\* than the hovered one.
C20_HoverImpliesTooltip ==
  /\ [](hoveredRegion # null => globalTooltip # null)
  /\ [][\A r \in RegionIdSet, event \in MouseEvents :
          (/\ handleRegionMouseEnter(REGION_GEOMETRY(r), event)
           /\ event.ownerSVGElement # undefined) => HoverMatchesTooltip']_vars
  /\ [][handleRegionMouseLeave => HoverMatchesTooltip']_vars
  /\ [][(HoverMatchesTooltip /\ ~HoverMatchesTooltip') =>
          \E r \in RegionIdSet, event \in MouseEvents :
            /\ handleRegionMouseMove(REGION_GEOMETRY(r), event)
            /\ event.ownerSVGElement # undefined
            /\ hoveredRegion # Some(r)]_vars

\* 'usa' is highlighted and the tooltip describes it, after a mouse-enter.
C20_Witness ==
  /\ hoveredRegion = Some("usa")
  /\ globalTooltip # null
  /\ globalTooltip[1].region.id = "usa"
  /\ activeRegion = "europe"

\* A mouse-move with no mouse-enter before it: a tooltip and no highlight.
C20_MoveFirstWitness ==
  /\ hoveredRegion = null
  /\ globalTooltip # null

(***************************************************************************)
(* C21.  A click on a marker pin sets selectedProject to the marker's      *)
(* project and regionTooltip to null; a click on a project of the          *)
(* 'Projects in this region' list sets selectedProject to that project and *)
(* keeps regionTooltip; marker mouse-enter and mouse-move set              *)
(* regionTooltip to the marker (the pin's event carrying its owner <svg>;  *)
(* they change nothing without one) and marker mouse-leave sets it to      *)
(* null, none of the three changing selectedProject.                       *)
(***************************************************************************)
ActiveMarkerSet == { activeRegionMarkers[i] : i \in DOMAIN activeRegionMarkers }

TooltipOfMarker(marker, event) ==
  [ marker |-> marker,
    x      |-> event.clientX - event.ownerSVGElement[1].left,
    y      |-> event.clientY - event.ownerSVGElement[1].top,
    width  |-> event.ownerSVGElement[1].width,
    height |-> event.ownerSVGElement[1].height ]

C21_MarkerAndListHandlers ==
  /\ [][\A marker \in ActiveMarkerSet :
          /\ onMarkerClick(marker) =>
               /\ selectedProject' = Some(marker.project)
               /\ regionTooltip' = null
          /\ onListClick(marker) =>
               /\ selectedProject' = Some(marker.project)
               /\ regionTooltip' = regionTooltip]_vars
  /\ [][\A marker \in ActiveMarkerSet, event \in MouseEvents :
          (handleMarkerMouseEnter(marker, event) \/ handleMarkerMouseMove(marker, event)) =>
             /\ event.ownerSVGElement # undefined =>
                  regionTooltip' = Some(TooltipOfMarker(marker, event))
             /\ event.ownerSVGElement = undefined => regionTooltip' = regionTooltip
             /\ selectedProject' = selectedProject]_vars
  /\ [][handleMarkerMouseLeave =>
          /\ regionTooltip' = null
          /\ selectedProject' = selectedProject]_vars

\* With two markers in the active region, the second one's project is the
\* selected one while the tooltip of the first is open: the list was clicked
\* with the tooltip open, or the pin hovered after the click.
C21_Witness ==
  /\ ~effectPending
  /\ Len(activeRegionMarkers) = 2
  /\ selectedProject = Some(activeRegionMarkers[2].project)
  /\ regionTooltip # null
  /\ regionTooltip[1].marker = activeRegionMarkers[1]
  /\ regionTooltip[1].x = 90

(***************************************************************************)
(* C22.  No keyword of an earlier entry of PROJECT_LOCATIONS is a          *)
(* substring of a keyword of a later entry, so every keyword selects its   *)
(* own entry: a project whose lowercased name is exactly a keyword of      *)
(* entry e (and which has no location) is matched to e and carries e's     *)
(* label.                                                                  *)
(***************************************************************************)
\* <<e, k>>: the k-th keyword of the e-th entry.
KeywordPositions ==
  UNION { { <<e, k>> : k \in DOMAIN PROJECT_LOCATIONS[e].keywords } :
            e \in DOMAIN PROJECT_LOCATIONS }

KeywordAt(p) == PROJECT_LOCATIONS[p[1]].keywords[p[2]]

\* The keywords that hold a keyword of an earlier entry.
ShadowedKeywords ==
  { p \in KeywordPositions :
      \E q \in KeywordPositions :
        q[1] < p[1] /\ includes(KeywordAt(p), KeywordAt(q)) }

\* The keywords that, as the name of a project with no location, are matched
\* to their own entry.
KeywordsSelectingOwnEntry ==
  { p \in KeywordPositions :
      matchProjectToLocation([name |-> KeywordAt(p), location |-> undefined,
                              value |-> "v1"])
        = Some(PROJECT_LOCATIONS[p[1]]) }

C22_EveryKeywordSelectsItsEntry ==
  /\ ShadowedKeywords = {}
  /\ (Returned("matchProjectToLocation") /\ args.location = undefined) =>
       \A p \in KeywordPositions :
         toLowerCase(args.name) = KeywordAt(p) =>
           /\ ret[1] # undefined
           /\ ret[1][1] = PROJECT_LOCATIONS[p[1]]
           /\ ret[1][1].label = PROJECT_LOCATIONS[p[1]].label

\* What does hold: 'andoain to urnieta', the first keyword of the ninth
\* entry, is the one keyword that holds a keyword of an earlier entry
\* ('andoain', of the seventh), and every other keyword selects its entry.
C22_AllButOneKeywordSelectItsEntry ==
  /\ ShadowedKeywords = {<<9, 1>>}
  /\ KeywordsSelectingOwnEntry = KeywordPositions \ {<<9, 1>>}
  /\ (Returned("matchProjectToLocation") /\ args.location = undefined) =>
       \A p \in KeywordPositions \ ShadowedKeywords :
         toLowerCase(args.name) = KeywordAt(p) =>
           /\ ret[1] # undefined
           /\ ret[1][1] = PROJECT_LOCATIONS[p[1]]

\* The project "Andoain to Urnieta" has been matched, to the entry labelled
\* 'Zizurkil · Andoain' and not to the one labelled 'Andoain · Urnieta'.
C22_ShadowedWitness ==
  /\ Returned("matchProjectToLocation")
  /\ args.name = <<"A", "n", "d", "o", "a", "i", "n", " ", "t", "o", " ", "U", "r", "n", "i", "e", "t", "a">>
  /\ args.location = undefined
  /\ ret[1] # undefined
  /\ ret[1][1].label = <<"Z", "i", "z", "u", "r", "k", "i", "l", " ", "·", " ", "A", "n", "d", "o", "a", "i", "n">>
  /\ ret[1][1] = PROJECT_LOCATIONS[7]
  /\ <<"a", "n", "d", "o", "a", "i", "n", " ", "t", "o", " ", "u", "r", "n", "i", "e", "t", "a">> = PROJECT_LOCATIONS[9].keywords[1]

\* The project "Urnieta" has been matched to its own entry, the ninth.
C22_OwnEntryWitness ==
  /\ Returned("matchProjectToLocation")
  /\ args.name = <<"U", "r", "n", "i", "e", "t", "a">>
  /\ args.location = undefined
  /\ ret[1] = Some(PROJECT_LOCATIONS[9])
====
